---- MODULE Spec2Model ----
(***************************************************************************)
(* A model of the container types of iwburns/tupperware (earlier published *)
(* as nullshield): the OptionT generation with the per-instance            *)
(* hasBeenInspected flag (src/src/OptionT.ts, second half), the later      *)
(* Optional generation that ships with Validation (src/src/Validation.ts)  *)
(* and ResultT (src/src/ResultT.ts).                                       *)
(*                                                                         *)
(* Objects live in a heap (a sequence of records, an object's identity is  *)
(* its index).  Every method is an operator from the heap, the receiver    *)
(* and the arguments to an outcome: the heap after the call, what the call *)
(* returned or threw, the caller-supplied functions it invoked, and what   *)
(* it wrote to console.warn.                                               *)
(***************************************************************************)
EXTENDS FiniteSets, Integers, Sequences, TLC

VARIABLES heap, last, inspected

vars == <<heap, last, inspected>>

(* Bounds of the model. *)
MaxVal == 2
MaxObjs == 2
MaxValidations == 4

(***************************************************************************)
(* JavaScript values, tagged by their typeof.                              *)
(***************************************************************************)
Undefined == <<"undefined">>
Null == <<"null">>
Num(n) == <<"number", n>>
Str(s) == <<"string", s>>
Bool(b) == <<"boolean", b>>
Ref(i) == <<"object", i>>
Fn(func) == <<"function", func>>

Payloads == {Num(n) : n \in 1..MaxVal}
Values == Payloads \cup {Null, Undefined}
Messages == {Undefined, Null, Str("failed")}

\* `value === null || typeof value === 'undefined'`
IsNullish(value) == value = Null \/ value = Undefined

\* What `if (x)` takes for true.
Truthy(value) == value \notin {Bool(FALSE), Null, Undefined, Num(0), Str("")}

\* The template literal `${value}` of the values the model draws.
TemplateString(value) ==
  IF value = Null THEN "null"
  ELSE IF value = Undefined THEN "undefined"
  ELSE IF value[1] = "number" THEN ToString(value[2])
  ELSE IF value[1] = "string" THEN value[2]
  ELSE "[object Object]"

(***************************************************************************)
(* What a call does: it returns a value or throws an error.                *)
(***************************************************************************)
Return(v) == [kind |-> "return", val |-> v]
Throw(e) == [kind |-> "throw", error |-> e]
Error(message) == <<"Error", message>>

Outcome(h, r, calls, warn) == [heap |-> h, ret |-> r, calls |-> calls, warn |-> warn]

(***************************************************************************)
(* Caller-supplied functions.  A function is a TLA+ function from its      *)
(* argument list to what its body does: return a value, throw, build a new *)
(* container and return it, or (x => first(x).flatMap(then)) call another  *)
(* function and chain on its result.  Invoke, defined after the classes,   *)
(* runs the body: it yields the heap after the call, what the call         *)
(* returned or threw, and the calls made, this one first.                  *)
(***************************************************************************)
Boom == Error("boom")
New(obj) == [kind |-> "new", obj |-> obj]
Chain(first, then) == [kind |-> "chain", first |-> first, then |-> then]
NoArgs == {<< >>}
OneArg == {<<v>> : v \in Values}

Called(func, args) == <<[fn |-> func, args |-> args]>>

RECURSIVE Invoke(_, _, _)

(***************************************************************************)
(* OptionT with the inspection flag: class Some, class None and the static *)
(* factories (src/src/OptionT.ts, lines 489-1058).                         *)
(***************************************************************************)
NewSome(value) == [cls |-> "OptionT.Some", value |-> value, hasBeenInspected |-> FALSE]
NewNone == [cls |-> "OptionT.None", hasBeenInspected |-> FALSE]

IsOptionT(h, i) == h[i].cls \in {"OptionT.Some", "OptionT.None"}

\* The messages are the source's, with its backquotes written as apostrophes.
UncheckedUnwrapMessage ==
  "nullshield:unchecked_unwrap: Called unwrap without first checking if it was safe to do so. Please verify that"
  \o " the 'OptionT' in question is a 'Some' value before calling this function or use a safer function like"
  \o " 'unwrapOr' which provides a default value in case this 'OptionT' is a 'None'."

OptionT_of(h, value) ==
  IF IsNullish(value)
  THEN Outcome(Append(h, NewNone), Return(Ref(Len(h) + 1)), << >>, << >>)
  ELSE Outcome(Append(h, NewSome(value)), Return(Ref(Len(h) + 1)), << >>, << >>)

\* OptionT.some without its guard against null and undefined.
OptionT_some_Unguarded(h, value) ==
  Outcome(Append(h, NewSome(value)), Return(Ref(Len(h) + 1)), << >>, << >>)

OptionT_some(h, value) ==
  IF IsNullish(value)
  THEN Outcome(h, Throw(Error("Cannot create a Some of a null or undefined value")), << >>, << >>)
  ELSE Outcome(Append(h, NewSome(value)), Return(Ref(Len(h) + 1)), << >>, << >>)

OptionT_none(h, value) ==
  IF IsNullish(value)
  THEN Outcome(Append(h, NewNone), Return(Ref(Len(h) + 1)), << >>, << >>)
  ELSE Outcome(h, Throw(Error("Cannot create a None of a non-null or undefined value")), << >>, << >>)

Some_isSome(h, self) ==
  Outcome([h EXCEPT ![self].hasBeenInspected = TRUE], Return(Bool(TRUE)), << >>, << >>)

\* Some.isNone that answers without recording the inspection.
Some_isNone_NoFlag(h, self) ==
  Outcome(h, Return(Bool(FALSE)), << >>, << >>)

Some_isNone(h, self) ==
  Outcome([h EXCEPT ![self].hasBeenInspected = TRUE], Return(Bool(FALSE)), << >>, << >>)

Some_toString(h, self) ==
  Outcome(h, Return(Str("Some( " \o TemplateString(h[self].value) \o " )")), << >>, << >>)

Some_unwrap(h, self, message) ==
  IF ~h[self].hasBeenInspected
  THEN Outcome(h, Throw(Error(UncheckedUnwrapMessage)), << >>, << >>)
  ELSE Outcome(h, Return(h[self].value), << >>, << >>)

Some_forceUnwrap(h, self, message) ==
  Outcome(h, Return(h[self].value), << >>,
          <<"nullshield:force_unwrap_warning: Called forceUnwrap on a 'Some' value.  This is not recommended usage.">>)

Some_unwrapOr(h, self, other) ==
  Outcome(h, Return(h[self].value), << >>, << >>)

Some_unwrapOrElse(h, self, func) ==
  Outcome(h, Return(h[self].value), << >>, << >>)

\* Some.map that catches what func throws and answers a None.
Some_map_Catches(h, self, func) ==
  LET r == Invoke(h, func, <<h[self].value>>)
  IN  IF r.ret.kind = "throw"
      THEN Outcome(Append(r.heap, NewNone), Return(Ref(Len(r.heap) + 1)), r.calls, << >>)
      ELSE LET o == OptionT_of(r.heap, r.ret.val)
           IN  Outcome(o.heap, o.ret, r.calls, << >>)

Some_map(h, self, func) ==
  LET r == Invoke(h, func, <<h[self].value>>)
  IN  IF r.ret.kind = "throw"
      THEN Outcome(r.heap, r.ret, r.calls, << >>)
      ELSE LET o == OptionT_of(r.heap, r.ret.val)
           IN  Outcome(o.heap, o.ret, r.calls, << >>)

Some_and(h, self, other) ==
  Outcome([h EXCEPT ![self].hasBeenInspected = TRUE], Return(other), << >>, << >>)

Some_flatMap(h, self, func) ==
  LET r == Invoke(h, func, <<h[self].value>>)
  IN  Outcome(r.heap, r.ret, r.calls, << >>)

Some_or(h, self, other) ==
  Outcome(h, Return(Ref(self)), << >>, << >>)

\* Some.orElse that evaluates func before answering with the receiver.
Some_orElse_Eager(h, self, func) ==
  LET r == Invoke(h, func, << >>)
  IN  IF r.ret.kind = "throw"
      THEN Outcome(r.heap, r.ret, r.calls, << >>)
      ELSE Outcome(r.heap, Return(Ref(self)), r.calls, << >>)

Some_orElse(h, self, func) ==
  Outcome(h, Return(Ref(self)), << >>, << >>)

Some_match(h, self, options) ==
  LET r == Invoke(h, options.some, <<h[self].value>>)
  IN  Outcome(r.heap, r.ret, r.calls, << >>)

\* Some.filter that answers a passing condition with a copy of the receiver.
Some_filter_Copy(h, self, condition) ==
  LET r == Invoke(h, condition, <<h[self].value>>)
  IN  IF r.ret.kind = "throw"
      THEN Outcome(r.heap, r.ret, r.calls, << >>)
      ELSE IF Truthy(r.ret.val)
           THEN Outcome(Append(r.heap, NewSome(h[self].value)), Return(Ref(Len(r.heap) + 1)), r.calls, << >>)
           ELSE Outcome(Append(r.heap, NewNone), Return(Ref(Len(r.heap) + 1)), r.calls, << >>)

Some_filter(h, self, condition) ==
  LET r == Invoke(h, condition, <<h[self].value>>)
  IN  IF r.ret.kind = "throw"
      THEN Outcome(r.heap, r.ret, r.calls, << >>)
      ELSE IF Truthy(r.ret.val)
           THEN Outcome(r.heap, Return(Ref(self)), r.calls, << >>)
           ELSE Outcome(Append(r.heap, NewNone), Return(Ref(Len(r.heap) + 1)), r.calls, << >>)

Some_forEach(h, self, func) ==
  LET r == Invoke(h, func, <<h[self].value>>)
  IN  IF r.ret.kind = "throw"
      THEN Outcome(r.heap, r.ret, r.calls, << >>)
      ELSE Outcome(r.heap, Return(Undefined), r.calls, << >>)

None_isSome(h, self) ==
  Outcome([h EXCEPT ![self].hasBeenInspected = TRUE], Return(Bool(FALSE)), << >>, << >>)

None_isNone(h, self) ==
  Outcome([h EXCEPT ![self].hasBeenInspected = TRUE], Return(Bool(TRUE)), << >>, << >>)

None_toString(h, self) ==
  Outcome(h, Return(Str("None()")), << >>, << >>)

None_unwrap(h, self, message) ==
  IF ~h[self].hasBeenInspected
  THEN Outcome(h, Throw(Error(UncheckedUnwrapMessage)), << >>, << >>)
  ELSE IF message # Undefined /\ message # Null
       THEN Outcome(h, Throw(Error("nullshield:unwrap_on_none: " \o TemplateString(message))), << >>, << >>)
       ELSE Outcome(h, Throw(Error("nullshield:unwrap_on_none: Called unwrap on a None value.")), << >>, << >>)

\* None.forceUnwrap that keeps unwrap's check of the inspection flag.
None_forceUnwrap_Checked(h, self, message) ==
  LET warn == <<"nullshield:force_unwrap_warning: Called forceUnwrap on a 'None' value.  This is not recommended usage.">>
  IN  IF ~h[self].hasBeenInspected
      THEN Outcome(h, Throw(Error(UncheckedUnwrapMessage)), << >>, warn)
      ELSE Outcome(h, Throw(Error("nullshield:force_unwrap_on_none: Called forceUnwrap on a None value.")), << >>, warn)

None_forceUnwrap(h, self, message) ==
  LET warn == <<"nullshield:force_unwrap_warning: Called forceUnwrap on a 'None' value.  This is not recommended usage.">>
  IN  IF message # Undefined /\ message # Null
      THEN Outcome(h, Throw(Error("nullshield:force_unwrap_on_none: " \o TemplateString(message))), << >>, warn)
      ELSE Outcome(h, Throw(Error("nullshield:force_unwrap_on_none: Called forceUnwrap on a None value.")), << >>, warn)

\* None.unwrapOr that calls a fallback that is a function.
None_unwrapOr_Calls(h, self, other) ==
  IF other[1] = "function"
  THEN LET r == Invoke(h, other[2], << >>)
       IN  Outcome(r.heap, r.ret, r.calls, << >>)
  ELSE Outcome(h, Return(other), << >>, << >>)

None_unwrapOr(h, self, other) ==
  Outcome(h, Return(other), << >>, << >>)

None_unwrapOrElse(h, self, func) ==
  LET r == Invoke(h, func, << >>)
  IN  Outcome(r.heap, r.ret, r.calls, << >>)

None_map(h, self, func) ==
  Outcome(Append(h, NewNone), Return(Ref(Len(h) + 1)), << >>, << >>)

None_and(h, self, other) ==
  LET h1 == [h EXCEPT ![self].hasBeenInspected = TRUE]
  IN  Outcome(Append(h1, NewNone), Return(Ref(Len(h1) + 1)), << >>, << >>)

None_flatMap(h, self, func) ==
  Outcome(Append(h, NewNone), Return(Ref(Len(h) + 1)), << >>, << >>)

None_or(h, self, other) ==
  Outcome(h, Return(other), << >>, << >>)

None_orElse(h, self, func) ==
  LET r == Invoke(h, func, << >>)
  IN  Outcome(r.heap, r.ret, r.calls, << >>)

None_match(h, self, options) ==
  LET r == Invoke(h, options.none, << >>)
  IN  Outcome(r.heap, r.ret, r.calls, << >>)

None_filter(h, self, condition) ==
  Outcome(Append(h, NewNone), Return(Ref(Len(h) + 1)), << >>, << >>)

None_forEach(h, self, func) ==
  Outcome(h, Return(Undefined), << >>, << >>)

(***************************************************************************)
(* Optional, the generation that ships with Validation: class Some, class  *)
(* None and the static factories (src/src/Validation.ts, lines 123-838).   *)
(* Its instances carry no inspection flag.                                 *)
(***************************************************************************)
Optional_NewSome(value) == [cls |-> "Optional.Some", value |-> value]
Optional_NewNone == [cls |-> "Optional.None"]

IsOptional(h, i) == h[i].cls \in {"Optional.Some", "Optional.None"}

Optional_of(h, value) ==
  Outcome(Append(h, Optional_NewSome(value)), Return(Ref(Len(h) + 1)), << >>, << >>)

Optional_some(h, value) ==
  Outcome(Append(h, Optional_NewSome(value)), Return(Ref(Len(h) + 1)), << >>, << >>)

Optional_none(h) ==
  Outcome(Append(h, Optional_NewNone), Return(Ref(Len(h) + 1)), << >>, << >>)

\* Optional.fromNullable that tests for null alone.
Optional_fromNullable_NullOnly(h, value) ==
  IF value = Null
  THEN Outcome(Append(h, Optional_NewNone), Return(Ref(Len(h) + 1)), << >>, << >>)
  ELSE Outcome(Append(h, Optional_NewSome(value)), Return(Ref(Len(h) + 1)), << >>, << >>)

Optional_fromNullable(h, value) ==
  IF IsNullish(value)
  THEN Outcome(Append(h, Optional_NewNone), Return(Ref(Len(h) + 1)), << >>, << >>)
  ELSE Outcome(Append(h, Optional_NewSome(value)), Return(Ref(Len(h) + 1)), << >>, << >>)

Optional_Some_isSome(h, self) ==
  Outcome(h, Return(Bool(TRUE)), << >>, << >>)

Optional_Some_isNone(h, self) ==
  Outcome(h, Return(Bool(FALSE)), << >>, << >>)

Optional_Some_unwrapOr(h, self, other) ==
  Outcome(h, Return(h[self].value), << >>, << >>)

Optional_Some_map(h, self, func) ==
  LET r == Invoke(h, func, <<h[self].value>>)
  IN  IF r.ret.kind = "throw"
      THEN Outcome(r.heap, r.ret, r.calls, << >>)
      ELSE LET o == Optional_of(r.heap, r.ret.val)
           IN  Outcome(o.heap, o.ret, r.calls, << >>)

Optional_Some_flatMap(h, self, func) ==
  LET r == Invoke(h, func, <<h[self].value>>)
  IN  Outcome(r.heap, r.ret, r.calls, << >>)

Optional_None_isSome(h, self) ==
  Outcome(h, Return(Bool(FALSE)), << >>, << >>)

Optional_None_isNone(h, self) ==
  Outcome(h, Return(Bool(TRUE)), << >>, << >>)

Optional_None_unwrapOr(h, self, other) ==
  IF other[1] = "function"
  THEN LET r == Invoke(h, other[2], << >>)
       IN  Outcome(r.heap, r.ret, r.calls, << >>)
  ELSE Outcome(h, Return(other), << >>, << >>)

Optional_None_map(h, self, func) ==
  Outcome(Append(h, Optional_NewNone), Return(Ref(Len(h) + 1)), << >>, << >>)

Optional_None_flatMap(h, self, func) ==
  Outcome(Append(h, Optional_NewNone), Return(Ref(Len(h) + 1)), << >>, << >>)

(***************************************************************************)
(* ResultT: class Ok, class Err and the static factories                   *)
(* (src/src/ResultT.ts).                                                   *)
(***************************************************************************)
NewOk(value) == [cls |-> "ResultT.Ok", value |-> value]
NewErr(error) == [cls |-> "ResultT.Err", error |-> error]

ResultT_ok(h, value) ==
  Outcome(Append(h, NewOk(value)), Return(Ref(Len(h) + 1)), << >>, << >>)

ResultT_err(h, error) ==
  Outcome(Append(h, NewErr(error)), Return(Ref(Len(h) + 1)), << >>, << >>)

Ok_flatMap(h, self, func) ==
  LET r == Invoke(h, func, <<h[self].value>>)
  IN  Outcome(r.heap, r.ret, r.calls, << >>)

\* Err.flatMap that hands its error to func, as Ok.flatMap hands its value.
Err_flatMap_Invokes(h, self, func) ==
  LET r == Invoke(h, func, <<h[self].error>>)
  IN  Outcome(r.heap, r.ret, r.calls, << >>)

Err_flatMap(h, self, func) ==
  ResultT_err(h, h[self].error)

(***************************************************************************)
(* ResultT: the other methods of Ok and Err.  getOk and getErr build an    *)
(* OptionT through its factories; unwrap and unwrapErr throw an Error      *)
(* whose text is the caller's message, unprefixed.                         *)
(***************************************************************************)
IsResultT(h, i) == h[i].cls \in {"ResultT.Ok", "ResultT.Err"}

\* ResultT.ok that turns null and undefined into an Err.
ResultT_ok_NullToErr(h, value) ==
  IF IsNullish(value)
  THEN Outcome(Append(h, NewErr(value)), Return(Ref(Len(h) + 1)), << >>, << >>)
  ELSE Outcome(Append(h, NewOk(value)), Return(Ref(Len(h) + 1)), << >>, << >>)

Ok_isOk(h, self) == Outcome(h, Return(Bool(TRUE)), << >>, << >>)

\* Ok.isErr that answers as Err.isErr does.
Ok_isErr_True(h, self) == Outcome(h, Return(Bool(TRUE)), << >>, << >>)

Ok_isErr(h, self) == Outcome(h, Return(Bool(FALSE)), << >>, << >>)

Ok_getOk(h, self) == OptionT_some(h, h[self].value)

Ok_getErr(h, self) == OptionT_none(h, Undefined)

Ok_unwrap(h, self, message) ==
  Outcome(h, Return(h[self].value), << >>, << >>)

Ok_unwrapErr(h, self, message) ==
  IF message # Undefined /\ message # Null
  THEN Outcome(h, Throw(Error(message[2])), << >>, << >>)
  ELSE Outcome(h, Throw(Error("Called unwrapErr on an Ok value.")), << >>, << >>)

Ok_unwrapOr(h, self, other) ==
  Outcome(h, Return(h[self].value), << >>, << >>)

\* Ok.unwrapOrElse that runs func on the value before returning the value.
Ok_unwrapOrElse_Eager(h, self, func) ==
  LET r == Invoke(h, func, <<h[self].value>>)
  IN  IF r.ret.kind = "throw"
      THEN Outcome(r.heap, r.ret, r.calls, << >>)
      ELSE Outcome(r.heap, Return(h[self].value), r.calls, << >>)

Ok_unwrapOrElse(h, self, func) ==
  Outcome(h, Return(h[self].value), << >>, << >>)

Ok_map(h, self, func) ==
  LET r == Invoke(h, func, <<h[self].value>>)
  IN  IF r.ret.kind = "throw"
      THEN Outcome(r.heap, r.ret, r.calls, << >>)
      ELSE LET o == ResultT_ok(r.heap, r.ret.val)
           IN  Outcome(o.heap, o.ret, r.calls, << >>)

Ok_mapErr(h, self, func) == ResultT_ok(h, h[self].value)

Ok_orElse(h, self, func) == ResultT_ok(h, h[self].value)

Ok_match(h, self, options) ==
  LET r == Invoke(h, options.ok, <<h[self].value>>)
  IN  Outcome(r.heap, r.ret, r.calls, << >>)

Err_isOk(h, self) == Outcome(h, Return(Bool(FALSE)), << >>, << >>)

Err_isErr(h, self) == Outcome(h, Return(Bool(TRUE)), << >>, << >>)

Err_getOk(h, self) == OptionT_none(h, Undefined)

Err_getErr(h, self) == OptionT_some(h, h[self].error)

\* Err.unwrap that ignores the caller's message.
Err_unwrap_NoMessage(h, self, message) ==
  Outcome(h, Throw(Error("Called unwrap on an Err value.")), << >>, << >>)

Err_unwrap(h, self, message) ==
  IF message # Undefined /\ message # Null
  THEN Outcome(h, Throw(Error(message[2])), << >>, << >>)
  ELSE Outcome(h, Throw(Error("Called unwrap on an Err value.")), << >>, << >>)

Err_unwrapErr(h, self, message) ==
  Outcome(h, Return(h[self].error), << >>, << >>)

Err_unwrapOr(h, self, other) ==
  Outcome(h, Return(other), << >>, << >>)

Err_unwrapOrElse(h, self, func) ==
  LET r == Invoke(h, func, <<h[self].error>>)
  IN  Outcome(r.heap, r.ret, r.calls, << >>)

\* Err.map that maps the error as Ok.map maps the value.
Err_map_Invokes(h, self, func) ==
  LET r == Invoke(h, func, <<h[self].error>>)
  IN  IF r.ret.kind = "throw"
      THEN Outcome(r.heap, r.ret, r.calls, << >>)
      ELSE LET o == ResultT_err(r.heap, r.ret.val)
           IN  Outcome(o.heap, o.ret, r.calls, << >>)

Err_map(h, self, func) == ResultT_err(h, h[self].error)

Err_mapErr(h, self, func) ==
  LET r == Invoke(h, func, <<h[self].error>>)
  IN  IF r.ret.kind = "throw"
      THEN Outcome(r.heap, r.ret, r.calls, << >>)
      ELSE LET o == ResultT_err(r.heap, r.ret.val)
           IN  Outcome(o.heap, o.ret, r.calls, << >>)

Err_orElse(h, self, func) ==
  LET r == Invoke(h, func, <<h[self].error>>)
  IN  Outcome(r.heap, r.ret, r.calls, << >>)

Err_match(h, self, options) ==
  LET r == Invoke(h, options.err, <<h[self].error>>)
  IN  Outcome(r.heap, r.ret, r.calls, << >>)

(***************************************************************************)
(* Result, the earlier class of src/src/Result.ts: its factories replace a *)
(* null or undefined argument by an Err holding a TypeError.               *)
(***************************************************************************)
Result_NewOk(val) == [cls |-> "Result.Ok", value |-> val]
Result_NewErr(err) == [cls |-> "Result.Err", error |-> err]

TypeError(message) == <<"TypeError", message>>

NullArgument ==
  TypeError("The argument \"val\" cannot be \"null\" and cannot be \"undefined\".")

Result_ok(h, val) ==
  IF IsNullish(val)
  THEN Outcome(Append(h, Result_NewErr(NullArgument)), Return(Ref(Len(h) + 1)), << >>, << >>)
  ELSE Outcome(Append(h, Result_NewOk(val)), Return(Ref(Len(h) + 1)), << >>, << >>)

Result_err(h, error) ==
  IF IsNullish(error)
  THEN Outcome(Append(h, Result_NewErr(NullArgument)), Return(Ref(Len(h) + 1)), << >>, << >>)
  ELSE Outcome(Append(h, Result_NewErr(error)), Return(Ref(Len(h) + 1)), << >>, << >>)

(***************************************************************************)
(* Validation: class Success, class Failure and the static factories      *)
(* (src/src/Validation.ts, lines 1-79).  A Failure holds an array of       *)
(* errors, modelled as a sequence.                                         *)
(***************************************************************************)
NewSuccess(val) == [cls |-> "Validation.Success", value |-> val]
\* errs is a reference to an array: the Failure keeps the array it is given.
NewFailure(errs) == [cls |-> "Validation.Failure", errors |-> errs]
\* An array is an object of its own: two Failures can hold the same one.
NewArray(items) == [cls |-> "Array", items |-> items]
Items(h, array) == h[array[2]].items

IsValidation(h, i) == h[i].cls \in {"Validation.Success", "Validation.Failure"}

\* `new Failure(array literal)`: the literal creates the array, the
\* constructor stores it.
NewFailureOf(h, items) ==
  LET h1 == Append(h, NewArray(items))
  IN  Outcome(Append(h1, NewFailure(Ref(Len(h1)))), Return(Ref(Len(h1) + 1)), << >>, << >>)

Validation_success(h, val) ==
  Outcome(Append(h, NewSuccess(val)), Return(Ref(Len(h) + 1)), << >>, << >>)

Validation_failure(h, val) == NewFailureOf(h, <<val>>)

Success_isSuccess(h, self) == TRUE

Failure_isSuccess(h, self) == FALSE

Failure_unwrapFailure(h, self) == h[self].errors

IsSuccess(h, i) ==
  IF h[i].cls = "Validation.Success" THEN Success_isSuccess(h, i)
                                     ELSE Failure_isSuccess(h, i)

\* Success.assert that keeps the receiver when the other is a Success.
Success_assert_KeepsLeft(h, self, other) ==
  IF IsSuccess(h, other[2])
  THEN Outcome(h, Return(Ref(self)), << >>, << >>)
  ELSE Outcome(h, Return(other), << >>, << >>)

Success_assert(h, self, other) ==
  Outcome(h, Return(other), << >>, << >>)

\* Failure.assert that puts the other's errors first.
Failure_assert_Reversed(h, self, other) ==
  IF IsSuccess(h, other[2])
  THEN Outcome(Append(h, NewFailure(h[self].errors)), Return(Ref(Len(h) + 1)), << >>, << >>)
  ELSE NewFailureOf(h, Items(h, Failure_unwrapFailure(h, other[2])) \o Items(h, h[self].errors))

\* Failure.assert that keeps only what the other contributes.
Failure_assert_OthersOnly(h, self, other) ==
  IF IsSuccess(h, other[2])
  THEN NewFailureOf(h, << >>)
  ELSE NewFailureOf(h, Items(h, h[self].errors) \o Items(h, Failure_unwrapFailure(h, other[2])))

\* Failure.assert that pushes the other's errors onto the receiver's array
\* and hands that array on.
Failure_assert_InPlace(h, self, other) ==
  IF IsSuccess(h, other[2])
  THEN Outcome(Append(h, NewFailure(h[self].errors)), Return(Ref(Len(h) + 1)), << >>, << >>)
  ELSE LET pushed == [h EXCEPT ![h[self].errors[2]].items =
                                 @ \o Items(h, Failure_unwrapFailure(h, other[2]))]
       IN  Outcome(Append(pushed, NewFailure(h[self].errors)),
                   Return(Ref(Len(h) + 1)), << >>, << >>)

\* Failure.assert that lets a Success argument win.
Failure_assert_SuccessWins(h, self, other) ==
  IF IsSuccess(h, other[2])
  THEN Outcome(h, Return(other), << >>, << >>)
  ELSE NewFailureOf(h, Items(h, h[self].errors) \o Items(h, Failure_unwrapFailure(h, other[2])))

\* `new Failure(this.errors)` hands on the receiver's own array; the spread
\* `[...this.errors, ...other.unwrapFailure()]` creates a new one.
Failure_assert(h, self, other) ==
  IF IsSuccess(h, other[2])
  THEN Outcome(Append(h, NewFailure(h[self].errors)), Return(Ref(Len(h) + 1)), << >>, << >>)
  ELSE NewFailureOf(h, Items(h, h[self].errors) \o Items(h, Failure_unwrapFailure(h, other[2])))

(***************************************************************************)
(* receiver.flatMap(func): the call goes to the receiver's class.          *)
(***************************************************************************)
FlatMap(h, self, func) ==
  CASE h[self].cls = "OptionT.Some" -> Some_flatMap(h, self, func)
    [] h[self].cls = "OptionT.None" -> None_flatMap(h, self, func)
    [] h[self].cls = "ResultT.Ok" -> Ok_flatMap(h, self, func)
    [] h[self].cls = "Optional.Some" -> Optional_Some_flatMap(h, self, func)
    [] h[self].cls = "Optional.None" -> Optional_None_flatMap(h, self, func)
    [] h[self].cls = "ResultT.Err" -> Err_flatMap(h, self, func)

Invoke(h, func, args) ==
  LET r == func[args]
  IN  CASE r.kind = "new" ->
             [heap |-> Append(h, r.obj), ret |-> Return(Ref(Len(h) + 1)),
              calls |-> Called(func, args)]
        [] r.kind = "chain" ->
             LET a == Invoke(h, r.first, args)
             IN  IF a.ret.kind = "throw"
                 THEN [heap |-> a.heap, ret |-> a.ret, calls |-> Called(func, args) \o a.calls]
                 ELSE LET b == FlatMap(a.heap, a.ret.val[2], r.then)
                      IN  [heap |-> b.heap, ret |-> b.ret,
                           calls |-> Called(func, args) \o a.calls \o b.calls]
        [] OTHER -> [heap |-> h, ret |-> r, calls |-> Called(func, args)]

(***************************************************************************)
(* The functions and arguments the callers of the model pass.              *)
(***************************************************************************)
Identity == [a \in OneArg |-> Return(a[1])]
Const(args, r) == [a \in args |-> r]

MapFuncs ==
  {Identity} \cup {Const(OneArg, r) : r \in {Return(Null), Return(Undefined), Return(Num(MaxVal)), Throw(Boom)}}
Thunks == {Const(NoArgs, r) : r \in {Return(Num(1)), Throw(Boom)}}
OptResults(h) ==
  {New(NewSome(Num(1))), New(NewNone), Throw(Boom)} \cup {Return(Ref(i)) : i \in DOMAIN h}
OptFuncs(h) == {Const(OneArg, r) : r \in OptResults(h)}
OptThunks(h) == {Const(NoArgs, r) : r \in OptResults(h)}
Conditions ==
  {Const(OneArg, r) : r \in {Return(Bool(TRUE)), Return(Bool(FALSE)), Throw(Boom)}}
MatchOptions ==
  {[some |-> Identity, none |-> Const(NoArgs, Return(Num(1)))],
   [some |-> Const(OneArg, Throw(Boom)), none |-> Const(NoArgs, Throw(Boom))]}
EachFuncs == {Identity, Const(OneArg, Throw(Boom))}
Defaults == {Num(MaxVal)} \cup {Fn(t) : t \in Thunks}

(***************************************************************************)
(* The state machine: a caller holding references to the objects built so  *)
(* far makes one call at a time.  `last` is the call that has just ended   *)
(* (what it returned or threw, the functions it invoked, what it warned),  *)
(* until the caller takes the result and goes on.  `inspected` is history: *)
(* the objects isSome() or isNone() was called on.                         *)
(***************************************************************************)
Objects == {i \in DOMAIN heap : IsOptionT(heap, i)}
Refs == {Ref(i) : i \in Objects}
IsSomeObj(i) == heap[i].cls = "OptionT.Some"

Idle ==
  [op |-> "idle", self |-> 0, args |-> << >>,
   ret |-> Return(Undefined), calls |-> << >>, warn |-> << >>]

Do(op, self, args, out) ==
  /\ last.op = "idle"
  /\ Len(out.heap) <= MaxObjs
  /\ heap' = out.heap
  /\ last' = [op |-> op, self |-> self, args |-> args,
              ret |-> out.ret, calls |-> out.calls, warn |-> out.warn]

Init ==
  /\ heap = << >>
  /\ last = Idle
  /\ inspected = {}

CallOf ==
  \E value \in Values :
    /\ Do("OptionT.of", 0, <<value>>, OptionT_of(heap, value))
    /\ UNCHANGED inspected

CallSome ==
  \E value \in Values :
    /\ Do("OptionT.some", 0, <<value>>, OptionT_some(heap, value))
    /\ UNCHANGED inspected

CallNone ==
  \E value \in Values :
    /\ Do("OptionT.none", 0, <<value>>, OptionT_none(heap, value))
    /\ UNCHANGED inspected

CallIsSome ==
  \E self \in Objects :
    /\ Do("isSome", self, << >>,
          IF IsSomeObj(self) THEN Some_isSome(heap, self) ELSE None_isSome(heap, self))
    /\ inspected' = inspected \cup {self}

CallIsNone ==
  \E self \in Objects :
    /\ Do("isNone", self, << >>,
          IF IsSomeObj(self) THEN Some_isNone(heap, self) ELSE None_isNone(heap, self))
    /\ inspected' = inspected \cup {self}

CallToString ==
  \E self \in Objects :
    /\ Do("toString", self, << >>,
          IF IsSomeObj(self) THEN Some_toString(heap, self) ELSE None_toString(heap, self))
    /\ UNCHANGED inspected

CallUnwrap ==
  \E self \in Objects, message \in Messages :
    /\ Do("unwrap", self, <<message>>,
          IF IsSomeObj(self) THEN Some_unwrap(heap, self, message)
                             ELSE None_unwrap(heap, self, message))
    /\ UNCHANGED inspected

CallForceUnwrap ==
  \E self \in Objects, message \in Messages :
    /\ Do("forceUnwrap", self, <<message>>,
          IF IsSomeObj(self) THEN Some_forceUnwrap(heap, self, message)
                             ELSE None_forceUnwrap(heap, self, message))
    /\ UNCHANGED inspected

CallUnwrapOr ==
  \E self \in Objects, other \in Defaults :
    /\ Do("unwrapOr", self, <<other>>,
          IF IsSomeObj(self) THEN Some_unwrapOr(heap, self, other)
                             ELSE None_unwrapOr(heap, self, other))
    /\ UNCHANGED inspected

CallUnwrapOrElse ==
  \E self \in Objects, func \in Thunks :
    /\ Do("unwrapOrElse", self, <<func>>,
          IF IsSomeObj(self) THEN Some_unwrapOrElse(heap, self, func)
                             ELSE None_unwrapOrElse(heap, self, func))
    /\ UNCHANGED inspected

CallMap ==
  \E self \in Objects, func \in MapFuncs :
    /\ Do("map", self, <<func>>,
          IF IsSomeObj(self) THEN Some_map(heap, self, func)
                             ELSE None_map(heap, self, func))
    /\ UNCHANGED inspected

CallAnd ==
  \E self \in Objects, other \in Refs :
    /\ Do("and", self, <<other>>,
          IF IsSomeObj(self) THEN Some_and(heap, self, other)
                             ELSE None_and(heap, self, other))
    /\ UNCHANGED inspected

CallFlatMap ==
  \E self \in Objects, func \in OptFuncs(heap) :
    /\ Do("flatMap", self, <<func>>,
          IF IsSomeObj(self) THEN Some_flatMap(heap, self, func)
                             ELSE None_flatMap(heap, self, func))
    /\ UNCHANGED inspected

CallOr ==
  \E self \in Objects, other \in Refs :
    /\ Do("or", self, <<other>>,
          IF IsSomeObj(self) THEN Some_or(heap, self, other)
                             ELSE None_or(heap, self, other))
    /\ UNCHANGED inspected

CallOrElse ==
  \E self \in Objects, func \in OptThunks(heap) :
    /\ Do("orElse", self, <<func>>,
          IF IsSomeObj(self) THEN Some_orElse(heap, self, func)
                             ELSE None_orElse(heap, self, func))
    /\ UNCHANGED inspected

CallMatch ==
  \E self \in Objects, options \in MatchOptions :
    /\ Do("match", self, <<options>>,
          IF IsSomeObj(self) THEN Some_match(heap, self, options)
                             ELSE None_match(heap, self, options))
    /\ UNCHANGED inspected

CallFilter ==
  \E self \in Objects, condition \in Conditions :
    /\ Do("filter", self, <<condition>>,
          IF IsSomeObj(self) THEN Some_filter(heap, self, condition)
                             ELSE None_filter(heap, self, condition))
    /\ UNCHANGED inspected

CallForEach ==
  \E self \in Objects, func \in EachFuncs :
    /\ Do("forEach", self, <<func>>,
          IF IsSomeObj(self) THEN Some_forEach(heap, self, func)
                             ELSE None_forEach(heap, self, func))
    /\ UNCHANGED inspected

\* The caller takes the result of the call and goes on.
Resume ==
  /\ last.op # "idle"
  /\ last' = Idle
  /\ UNCHANGED <<heap, inspected>>

Next ==
  \/ Resume
  \/ CallOf
  \/ CallSome
  \/ CallNone
  \/ CallIsSome
  \/ CallIsNone
  \/ CallToString
  \/ CallUnwrap
  \/ CallForceUnwrap
  \/ CallUnwrapOr
  \/ CallUnwrapOrElse
  \/ CallMap
  \/ CallAnd
  \/ CallFlatMap
  \/ CallOr
  \/ CallOrElse
  \/ CallMatch
  \/ CallFilter
  \/ CallForEach

Spec == Init /\ [][Next]_vars

(***************************************************************************)
(* The factories of both generations side by side, and the Optional of     *)
(* Validation.ts: a caller that builds containers with either family and   *)
(* inspects and maps them.                                                 *)
(***************************************************************************)
Optionals == {i \in DOMAIN heap : IsOptional(heap, i)}
IsOptionalSome(i) == heap[i].cls = "Optional.Some"

CallOptionalOf ==
  \E value \in Values :
    /\ Do("Optional.of", 0, <<value>>, Optional_of(heap, value))
    /\ UNCHANGED inspected

CallOptionalSome ==
  \E value \in Values :
    /\ Do("Optional.some", 0, <<value>>, Optional_some(heap, value))
    /\ UNCHANGED inspected

CallOptionalNone ==
  /\ Do("Optional.none", 0, << >>, Optional_none(heap))
  /\ UNCHANGED inspected

CallOptionalFromNullable ==
  \E value \in Values :
    /\ Do("Optional.fromNullable", 0, <<value>>, Optional_fromNullable(heap, value))
    /\ UNCHANGED inspected

CallOptionalIsSome ==
  \E self \in Optionals :
    /\ Do("isSome", self, << >>,
          IF IsOptionalSome(self) THEN Optional_Some_isSome(heap, self)
                                  ELSE Optional_None_isSome(heap, self))
    /\ UNCHANGED inspected

CallOptionalIsNone ==
  \E self \in Optionals :
    /\ Do("isNone", self, << >>,
          IF IsOptionalSome(self) THEN Optional_Some_isNone(heap, self)
                                  ELSE Optional_None_isNone(heap, self))
    /\ UNCHANGED inspected

CallOptionalUnwrapOr ==
  \E self \in Optionals, other \in Defaults :
    /\ Do("unwrapOr", self, <<other>>,
          IF IsOptionalSome(self) THEN Optional_Some_unwrapOr(heap, self, other)
                                  ELSE Optional_None_unwrapOr(heap, self, other))
    /\ UNCHANGED inspected

CallOptionalMap ==
  \E self \in Optionals, func \in MapFuncs :
    /\ Do("map", self, <<func>>,
          IF IsOptionalSome(self) THEN Optional_Some_map(heap, self, func)
                                  ELSE Optional_None_map(heap, self, func))
    /\ UNCHANGED inspected

NextOptional ==
  \/ Resume
  \/ CallOf
  \/ CallSome
  \/ CallNone
  \/ CallMap
  \/ CallOptionalOf
  \/ CallOptionalSome
  \/ CallOptionalNone
  \/ CallOptionalFromNullable
  \/ CallOptionalIsSome
  \/ CallOptionalIsNone
  \/ CallOptionalMap
  \/ CallOptionalUnwrapOr
  \/ CallUnwrapOr

SpecOptional == Init /\ [][NextOptional]_vars

(***************************************************************************)
(* ResultT and its callers: results are built by ResultT.ok/err (and by    *)
(* Result.ok/err of Result.ts), unwrapped, mapped, chained and converted   *)
(* to OptionT; the OptionT instances that getOk/getErr return can be       *)
(* unwrapped with a fallback thunk.                                        *)
(***************************************************************************)
Results == {i \in DOMAIN heap : IsResultT(heap, i)}
IsOkObj(i) == heap[i].cls = "ResultT.Ok"

ResultFuncs(h) ==
  {Const(OneArg, r) :
     r \in {New(NewOk(Num(1))), New(NewErr(Num(1))), Throw(Boom)}
           \cup {Return(Ref(i)) : i \in {j \in DOMAIN h : IsResultT(h, j)}}}

ResultMatchOptions ==
  {[ok |-> Identity, err |-> Const(OneArg, Throw(Boom))],
   [ok |-> Const(OneArg, Throw(Boom)), err |-> Identity]}

CallOk ==
  \E value \in Values :
    /\ Do("ResultT.ok", 0, <<value>>, ResultT_ok(heap, value))
    /\ UNCHANGED inspected

CallErr ==
  \E error \in Values :
    /\ Do("ResultT.err", 0, <<error>>, ResultT_err(heap, error))
    /\ UNCHANGED inspected

CallResultOk ==
  \E val \in Values :
    /\ Do("Result.ok", 0, <<val>>, Result_ok(heap, val))
    /\ UNCHANGED inspected

CallResultErr ==
  \E error \in Values :
    /\ Do("Result.err", 0, <<error>>, Result_err(heap, error))
    /\ UNCHANGED inspected

CallGetOk ==
  \E self \in Results :
    /\ Do("getOk", self, << >>,
          IF IsOkObj(self) THEN Ok_getOk(heap, self) ELSE Err_getOk(heap, self))
    /\ UNCHANGED inspected

CallGetErr ==
  \E self \in Results :
    /\ Do("getErr", self, << >>,
          IF IsOkObj(self) THEN Ok_getErr(heap, self) ELSE Err_getErr(heap, self))
    /\ UNCHANGED inspected

CallResultUnwrap ==
  \E self \in Results, message \in Messages :
    /\ Do("unwrap", self, <<message>>,
          IF IsOkObj(self) THEN Ok_unwrap(heap, self, message)
                           ELSE Err_unwrap(heap, self, message))
    /\ UNCHANGED inspected

CallResultUnwrapErr ==
  \E self \in Results, message \in Messages :
    /\ Do("unwrapErr", self, <<message>>,
          IF IsOkObj(self) THEN Ok_unwrapErr(heap, self, message)
                           ELSE Err_unwrapErr(heap, self, message))
    /\ UNCHANGED inspected

CallResultUnwrapOr ==
  \E self \in Results, other \in Defaults :
    /\ Do("unwrapOr", self, <<other>>,
          IF IsOkObj(self) THEN Ok_unwrapOr(heap, self, other)
                           ELSE Err_unwrapOr(heap, self, other))
    /\ UNCHANGED inspected

CallResultUnwrapOrElse ==
  \E self \in Results, func \in MapFuncs :
    /\ Do("unwrapOrElse", self, <<func>>,
          IF IsOkObj(self) THEN Ok_unwrapOrElse(heap, self, func)
                           ELSE Err_unwrapOrElse(heap, self, func))
    /\ UNCHANGED inspected

CallResultMap ==
  \E self \in Results, func \in MapFuncs :
    /\ Do("map", self, <<func>>,
          IF IsOkObj(self) THEN Ok_map(heap, self, func)
                           ELSE Err_map(heap, self, func))
    /\ UNCHANGED inspected

CallResultMapErr ==
  \E self \in Results, func \in MapFuncs :
    /\ Do("mapErr", self, <<func>>,
          IF IsOkObj(self) THEN Ok_mapErr(heap, self, func)
                           ELSE Err_mapErr(heap, self, func))
    /\ UNCHANGED inspected

CallResultOrElse ==
  \E self \in Results, func \in ResultFuncs(heap) :
    /\ Do("orElse", self, <<func>>,
          IF IsOkObj(self) THEN Ok_orElse(heap, self, func)
                           ELSE Err_orElse(heap, self, func))
    /\ UNCHANGED inspected

CallIsOk ==
  \E self \in Results :
    /\ Do("isOk", self, << >>,
          IF IsOkObj(self) THEN Ok_isOk(heap, self) ELSE Err_isOk(heap, self))
    /\ UNCHANGED inspected

CallIsErr ==
  \E self \in Results :
    /\ Do("isErr", self, << >>,
          IF IsOkObj(self) THEN Ok_isErr(heap, self) ELSE Err_isErr(heap, self))
    /\ UNCHANGED inspected

CallResultFlatMap ==
  \E self \in Results, func \in ResultFuncs(heap) :
    /\ Do("flatMap", self, <<func>>,
          IF IsOkObj(self) THEN Ok_flatMap(heap, self, func)
                           ELSE Err_flatMap(heap, self, func))
    /\ UNCHANGED inspected

CallResultMatch ==
  \E self \in Results, options \in ResultMatchOptions :
    /\ Do("match", self, <<options>>,
          IF IsOkObj(self) THEN Ok_match(heap, self, options)
                           ELSE Err_match(heap, self, options))
    /\ UNCHANGED inspected

NextResult ==
  \/ Resume
  \/ CallOk
  \/ CallErr
  \/ CallResultOk
  \/ CallResultErr
  \/ CallGetOk
  \/ CallGetErr
  \/ CallResultUnwrap
  \/ CallResultUnwrapErr
  \/ CallResultUnwrapOr
  \/ CallResultUnwrapOrElse
  \/ CallResultMap
  \/ CallResultMapErr
  \/ CallResultOrElse
  \/ CallUnwrapOrElse
  \/ CallIsOk
  \/ CallIsErr
  \/ CallResultFlatMap
  \/ CallResultMatch

SpecResult == Init /\ [][NextResult]_vars

(***************************************************************************)
(* OptionT and ResultT together: a caller that builds instances of both,   *)
(* inspects them, unwraps and uses every operation that takes a function   *)
(* or returns an instance; the OptionT instances come from OptionT.of,     *)
(* from getOk/getErr and from the caller's functions.                      *)
(***************************************************************************)
NextAll ==
  \/ Resume
  \/ CallOf
  \/ CallIsSome
  \/ CallIsNone
  \/ CallUnwrap
  \/ CallUnwrapOrElse
  \/ CallMap
  \/ CallAnd
  \/ CallFlatMap
  \/ CallOr
  \/ CallOrElse
  \/ CallMatch
  \/ CallFilter
  \/ CallForEach
  \/ CallOk
  \/ CallErr
  \/ CallIsOk
  \/ CallIsErr
  \/ CallGetOk
  \/ CallGetErr
  \/ CallResultUnwrapOrElse
  \/ CallResultMap
  \/ CallResultMapErr
  \/ CallResultFlatMap
  \/ CallResultOrElse
  \/ CallResultMatch

SpecAll == Init /\ [][NextAll]_vars

(***************************************************************************)
(* Validation and its callers: validations are built by success and        *)
(* failure and combined with assert, the result of one assert being the    *)
(* receiver or the argument of the next.                                   *)
(***************************************************************************)
Validations == {i \in DOMAIN heap : IsValidation(heap, i)}

DoWithin(bound, op, self, args, out) ==
  /\ last.op = "idle"
  /\ Len(out.heap) <= bound
  /\ heap' = out.heap
  /\ last' = [op |-> op, self |-> self, args |-> args,
              ret |-> out.ret, calls |-> out.calls, warn |-> out.warn]

\* A call of the Validation family: MaxValidations bounds the validations
\* alive, the arrays they hold not counted.
DoValidation(op, self, args, out) ==
  /\ DoWithin(2 * MaxValidations, op, self, args, out)
  /\ Len(SelectSeq(heap', LAMBDA obj : obj.cls # "Array")) <= MaxValidations

CallSuccess ==
  \E val \in Payloads :
    /\ DoValidation("Validation.success", 0, <<val>>,
                    Validation_success(heap, val))
    /\ UNCHANGED inspected

CallFailure ==
  \E val \in Payloads :
    /\ DoValidation("Validation.failure", 0, <<val>>,
                    Validation_failure(heap, val))
    /\ UNCHANGED inspected

CallAssert ==
  \E self \in Validations, other \in Validations :
    /\ DoValidation("assert", self, <<Ref(other)>>,
                    IF heap[self].cls = "Validation.Success"
                    THEN Success_assert(heap, self, Ref(other))
                    ELSE Failure_assert(heap, self, Ref(other)))
    /\ UNCHANGED inspected

NextValidation ==
  \/ Resume
  \/ CallSuccess
  \/ CallFailure
  \/ CallAssert

SpecValidation == Init /\ [][NextValidation]_vars

(***************************************************************************)
(* Chained and nested flatMap.  A receiver is built by one factory call;   *)
(* the caller then evaluates a.flatMap(f).flatMap(g) and                   *)
(* a.flatMap(x => f(x).flatMap(g)) and keeps what it observed of each: the *)
(* object returned or the error thrown, and the invocations of f and g.    *)
(***************************************************************************)
Shift(value) ==
  IF value[1] = "number" THEN Num((value[2] % MaxVal) + 1) ELSE value

\* Functions from a value to a container of the family whose constructors
\* are some and none (each a function of the payload): one that always
\* succeeds, one that succeeds on 1 only, one that never succeeds and one
\* that throws.
Binders(some, none) ==
  {[a \in OneArg |-> New(some[Shift(a[1])])],
   [a \in OneArg |-> IF a[1] = Num(1) THEN New(some[Num(MaxVal)]) ELSE New(none[a[1]])],
   [a \in OneArg |-> New(none[a[1]])],
   Const(OneArg, Throw(Boom))}

OptionTBinders ==
  Binders([v \in Values |-> NewSome(v)], [v \in Values |-> NewNone])
OptionalBinders ==
  Binders([v \in Values |-> Optional_NewSome(v)], [v \in Values |-> Optional_NewNone])
ResultTBinders ==
  Binders([v \in Values |-> NewOk(v)], [v \in Values |-> NewErr(v)])

BindersFor(cls) ==
  CASE cls \in {"OptionT.Some", "OptionT.None"} -> OptionTBinders
    [] cls \in {"Optional.Some", "Optional.None"} -> OptionalBinders
    [] cls \in {"ResultT.Ok", "ResultT.Err"} -> ResultTBinders

Chained(h, self, f, g) ==
  LET x == FlatMap(h, self, f)
  IN  IF x.ret.kind = "throw"
      THEN x
      ELSE LET y == FlatMap(x.heap, x.ret.val[2], g)
           IN  Outcome(y.heap, y.ret, x.calls \o y.calls, << >>)

Nested(h, self, f, g) == FlatMap(h, self, [a \in OneArg |-> Chain(f, g)])

Observed(out, f, g) ==
  [result |-> IF out.ret.kind = "throw" THEN out.ret ELSE out.heap[out.ret.val[2]],
   calls |-> SelectSeq(out.calls, LAMBDA c : c.fn \in {f, g})]

InitAssoc ==
  /\ heap \in {OptionT_of(<< >>, v).heap : v \in Values}
          \cup {Optional_fromNullable(<< >>, v).heap : v \in Values}
          \cup {ResultT_ok(<< >>, v).heap : v \in Values}
          \cup {ResultT_err(<< >>, v).heap : v \in Values}
  /\ last = Idle
  /\ inspected = {}

FlatMapBothWays ==
  /\ last.op = "idle"
  /\ Len(heap) = 1
  /\ \E f \in BindersFor(heap[1].cls), g \in BindersFor(heap[1].cls) :
       LET l == Chained(heap, 1, f, g)
           r == Nested(l.heap, 1, f, g)
       IN  /\ heap' = r.heap
           /\ last' = [op |-> "assoc", self |-> 1, args |-> <<f, g>>,
                       ret |-> l.ret, calls |-> l.calls, warn |-> << >>,
                       chained |-> Observed(l, f, g),
                       nested |-> Observed(r, f, g)]
  /\ UNCHANGED inspected

NextAssoc ==
  \/ FlatMapBothWays
  \/ Resume

SpecAssoc == InitAssoc /\ [][NextAssoc]_vars

(***************************************************************************)
(* Properties of OptionT with the inspection flag, checked under Spec.     *)
(***************************************************************************)
IsRefTo(ret, cls) ==
  /\ ret.kind = "return"
  /\ ret.val[1] = "object"
  /\ heap[ret.val[2]].cls = cls

UnwrapOnNoneError(message) ==
  IF message = Str("failed")
  THEN Error("nullshield:unwrap_on_none: failed")
  ELSE Error("nullshield:unwrap_on_none: Called unwrap on a None value.")

ForceUnwrapOnNoneError(message) ==
  IF message = Str("failed")
  THEN Error("nullshield:force_unwrap_on_none: failed")
  ELSE Error("nullshield:force_unwrap_on_none: Called forceUnwrap on a None value.")

\* C1: unwrap(message?) on an instance on which neither isSome() nor isNone()
\* has been called fails with unchecked_unwrap, Some or None alike, with or
\* without a message.
C1_UninspectedUnwrapFails ==
  (last.op = "unwrap" /\ last.self \notin inspected)
    => last.ret = Throw(Error(UncheckedUnwrapMessage))

\* C2: once isSome() or isNone() has been called on an instance, every later
\* unwrap(message?) on it returns the inner value of a Some and fails on a None
\* with unwrap_on_none, carrying the caller's message or the default text; it
\* never reports unchecked_unwrap again.
C2_InspectedUnwrap ==
  (last.op = "unwrap" /\ last.self \in inspected)
    => IF heap[last.self].cls = "OptionT.Some"
       THEN last.ret = Return(heap[last.self].value)
       ELSE last.ret = Throw(UnwrapOnNoneError(last.args[1]))

C2_Witness ==
  /\ last.op = "unwrap"
  /\ last.self \in inspected
  /\ heap[last.self].cls = "OptionT.None"
  /\ last.args[1] = Str("failed")
  /\ last.ret = Throw(Error("nullshield:unwrap_on_none: failed"))
  /\ Len(heap) = 2

\* C3: the inspection flag is set by isSome() and isNone() only: an instance
\* on which neither was called has its flag unset, whatever other operations
\* ran on it.
C3_FlagSetByInspectionOnly ==
  \A i \in Objects : heap[i].hasBeenInspected => i \in inspected

\* C4: forceUnwrap(message?) needs no prior inspection: it returns the inner
\* value of a Some, fails on a None with force_unwrap_on_none (the caller's
\* message or the default text), never with unchecked_unwrap, and every call
\* writes exactly one warning.
C4_ForceUnwrap ==
  last.op = "forceUnwrap"
    => /\ Len(last.warn) = 1
       /\ IF heap[last.self].cls = "OptionT.Some"
          THEN last.ret = Return(heap[last.self].value)
          ELSE last.ret = Throw(ForceUnwrapOnNoneError(last.args[1]))

C4_Witness ==
  /\ last.op = "forceUnwrap"
  /\ last.self \notin inspected
  /\ ~heap[last.self].hasBeenInspected
  /\ heap[last.self].cls = "OptionT.None"
  /\ last.args[1] = Undefined
  /\ last.ret = Throw(Error("nullshield:force_unwrap_on_none: Called forceUnwrap on a None value."))
  /\ Len(last.warn) = 1

\* C9: filter(predicate) on Some(v) invokes the predicate once with v and
\* returns the receiver itself when it holds and a None when it does not; on a
\* None it returns a None without invoking the predicate.
C9_Filter ==
  last.op = "filter"
    => IF heap[last.self].cls = "OptionT.Some"
       THEN LET r == last.args[1][<<heap[last.self].value>>]
            IN  /\ last.calls = Called(last.args[1], <<heap[last.self].value>>)
                /\ r = Return(Bool(TRUE)) => last.ret = Return(Ref(last.self))
                /\ r = Return(Bool(FALSE)) =>
                     /\ IsRefTo(last.ret, "OptionT.None")
                     /\ last.ret # Return(Ref(last.self))
       ELSE /\ last.calls = << >>
            /\ IsRefTo(last.ret, "OptionT.None")

C9_Witness ==
  /\ last.op = "filter"
  /\ heap[last.self].cls = "OptionT.Some"
  /\ last.args[1][<<heap[last.self].value>>] = Return(Bool(TRUE))
  /\ last.ret = Return(Ref(last.self))

\* C10: orElse(thunk) on a Some returns the receiver itself and never invokes
\* thunk (a thunk that would throw causes no failure); on a None it invokes
\* thunk exactly once and returns exactly what thunk returned.
C10_OrElse ==
  last.op = "orElse"
    => IF heap[last.self].cls = "OptionT.Some"
       THEN /\ last.ret = Return(Ref(last.self))
            /\ last.calls = << >>
       ELSE LET r == last.args[1][<< >>]
            IN  /\ last.calls = Called(last.args[1], << >>)
                /\ r.kind = "new" =>
                     /\ last.ret = Return(Ref(Len(heap)))
                     /\ heap[Len(heap)] = r.obj
                /\ r.kind # "new" => last.ret = r

C10_Witness ==
  /\ last.op = "orElse"
  /\ heap[last.self].cls = "OptionT.Some"
  /\ last.args[1][<< >>] = Throw(Boom)
  /\ last.ret = Return(Ref(last.self))
  /\ last.calls = << >>

(***************************************************************************)
(* Properties of the factories and of map in both generations, checked     *)
(* under SpecOptional.                                                     *)
(***************************************************************************)
IsSomeCls(cls) == cls \in {"OptionT.Some", "Optional.Some"}
IsNoneCls(cls) == cls \in {"OptionT.None", "Optional.None"}

IsRefToSomeOf(ret, value) ==
  /\ ret.kind = "return"
  /\ ret.val[1] = "object"
  /\ IsSomeCls(heap[ret.val[2]].cls)
  /\ heap[ret.val[2]].value = value

IsRefToNone(ret) ==
  /\ ret.kind = "return"
  /\ ret.val[1] = "object"
  /\ IsNoneCls(heap[ret.val[2]].cls)

C7_Map ==
  last.op = "map"
    => IF IsSomeCls(heap[last.self].cls)
       THEN LET r == last.args[1][<<heap[last.self].value>>]
            IN  /\ last.calls = Called(last.args[1], <<heap[last.self].value>>)
                /\ r.kind = "return" =>
                     IF IsNullish(r.val)
                     THEN IsRefToNone(last.ret)
                     ELSE IsRefToSomeOf(last.ret, r.val)
       ELSE /\ last.calls = << >>
            /\ IsRefToNone(last.ret)

(***************************************************************************)
(* Property of flatMap in OptionT, Optional and ResultT, checked under     *)
(* SpecAssoc.                                                              *)
(***************************************************************************)
HoldsValue(obj) == obj.cls \in {"OptionT.Some", "Optional.Some", "ResultT.Ok"}

\* C8: a.flatMap(f).flatMap(g) and a.flatMap(x => f(x).flatMap(g)) yield the
\* same variant with the same payload (or throw the same error) and invoke f
\* and g the same number of times with the same arguments; f never runs on a
\* None or an Err, and g never runs when f's result is a None or an Err.
C8_FlatMapAssociative ==
  last.op = "assoc"
    => LET a == heap[last.self]
           f == last.args[1]
           g == last.args[2]
       IN  /\ last.chained = last.nested
           /\ IF ~HoldsValue(a)
              THEN /\ last.chained.calls = << >>
                   /\ last.chained.result.cls = a.cls
              ELSE LET r == f[<<a.value>>]
                   IN  IF r.kind = "new" /\ HoldsValue(r.obj)
                       THEN last.chained.calls
                              = Called(f, <<a.value>>) \o Called(g, <<r.obj.value>>)
                       ELSE last.chained.calls = Called(f, <<a.value>>)

C8_Witness ==
  /\ last.op = "assoc"
  /\ heap[last.self].cls = "OptionT.Some"
  /\ Len(last.chained.calls) = 2
  /\ Len(last.nested.calls) = 2
  /\ last.ret.kind = "return"
  /\ last.chained.result.cls = "OptionT.Some"
  /\ last.nested.result = last.chained.result

\* C12, as claimed: unwrapOr(default) never invokes its argument: on a Some
\* it returns the inner value, on a None it returns the argument itself, a
\* function included.
C12_UnwrapOrNeverInvokes ==
  last.op = "unwrapOr"
    => /\ last.calls = << >>
       /\ IF IsSomeCls(heap[last.self].cls)
          THEN last.ret = Return(heap[last.self].value)
          ELSE last.ret = Return(last.args[1])

\* C12, amended: on a Some, unwrapOr(default) returns the inner value and
\* invokes nothing, in both generations.  On a None, OptionT.unwrapOr returns
\* the argument itself, a function included; Optional.unwrapOr of
\* Validation.ts returns the argument itself unless it is a function, which
\* it invokes exactly once with no argument, the outcome of that call being
\* the outcome of unwrapOr.
C12_UnwrapOrByGeneration ==
  last.op = "unwrapOr"
    => LET o == heap[last.self]
           other == last.args[1]
       IN  CASE IsSomeCls(o.cls) ->
                  /\ last.ret = Return(o.value)
                  /\ last.calls = << >>
             [] o.cls = "OptionT.None" ->
                  /\ last.ret = Return(other)
                  /\ last.calls = << >>
             [] o.cls = "Optional.None" ->
                  IF other[1] = "function"
                  THEN /\ last.calls = Called(other[2], << >>)
                       /\ last.ret = other[2][<< >>]
                  ELSE /\ last.ret = Return(other)
                       /\ last.calls = << >>

C12_Witness ==
  /\ last.op = "unwrapOr"
  /\ heap[last.self].cls = "Optional.None"
  /\ last.args[1] = Fn(Const(NoArgs, Return(Num(1))))
  /\ last.calls = Called(Const(NoArgs, Return(Num(1))), << >>)
  /\ last.ret = Return(Num(1))

(***************************************************************************)
(* Properties of ResultT (and of the factories of Result.ts), checked      *)
(* under SpecResult.                                                       *)
(***************************************************************************)
IsRefToObj(ret, obj) ==
  /\ ret.kind = "return"
  /\ ret.val[1] = "object"
  /\ heap[ret.val[2]] = obj

IsRefToNew(ret, obj) ==
  /\ ret = Return(Ref(Len(heap)))
  /\ ret.val[2] # last.self
  /\ heap[Len(heap)] = obj

\* C11: unwrapOrElse(thunk) on a Some or an Ok returns the inner value and
\* never invokes thunk; on a None it invokes thunk exactly once with no
\* argument, on an Err(e) exactly once with e, and what thunk returns (or
\* throws) is the outcome of the call.
C11_UnwrapOrElse ==
  last.op = "unwrapOrElse"
    => LET o == heap[last.self]
           f == last.args[1]
       IN  CASE o.cls \in {"OptionT.Some", "ResultT.Ok"} ->
                  /\ last.ret = Return(o.value)
                  /\ last.calls = << >>
             [] o.cls = "OptionT.None" ->
                  /\ last.calls = Called(f, << >>)
                  /\ last.ret = f[<< >>]
             [] o.cls = "ResultT.Err" ->
                  /\ last.calls = Called(f, <<o.error>>)
                  /\ last.ret = f[<<o.error>>]

C11_Witness ==
  /\ last.op = "unwrapOrElse"
  /\ heap[last.self] = NewErr(Num(1))
  /\ last.args[1] = Identity
  /\ last.calls = Called(Identity, <<Num(1)>>)
  /\ last.ret = Return(Num(1))

\* C13: getOk() and getErr() never throw, for every ResultT that ok()/err()
\* can build: getOk() is a Some of the value on an Ok and a None on an Err,
\* getErr() is a Some of the error on an Err and a None on an Ok.
C13_ConversionIsTotal ==
  /\ last.op = "getOk" =>
       IF heap[last.self].cls = "ResultT.Ok"
       THEN IsRefToSomeOf(last.ret, heap[last.self].value)
       ELSE IsRefToNone(last.ret)
  /\ last.op = "getErr" =>
       IF heap[last.self].cls = "ResultT.Err"
       THEN IsRefToSomeOf(last.ret, heap[last.self].error)
       ELSE IsRefToNone(last.ret)

\* C14: unwrap(message?) returns the value of an Ok and throws on an Err an
\* Error whose text is the caller's message when one is given and 'Called
\* unwrap on an Err value.' otherwise; unwrapErr(message?) returns the error
\* of an Err and throws on an Ok the caller's message or 'Called unwrapErr on
\* an Ok value.'.
C14_UnwrapFamily ==
  LET given == last.args[1] \notin {Undefined, Null}
  IN  /\ last.op = "unwrap" =>
           IF heap[last.self].cls = "ResultT.Ok"
           THEN last.ret = Return(heap[last.self].value)
           ELSE last.ret = Throw(Error(IF given THEN last.args[1][2]
                                                ELSE "Called unwrap on an Err value."))
      /\ last.op = "unwrapErr" =>
           IF heap[last.self].cls = "ResultT.Err"
           THEN last.ret = Return(heap[last.self].error)
           ELSE last.ret = Throw(Error(IF given THEN last.args[1][2]
                                                ELSE "Called unwrapErr on an Ok value."))

C14_Witness ==
  /\ last.op = "unwrap"
  /\ heap[last.self].cls = "ResultT.Err"
  /\ last.args[1] = Str("failed")
  /\ last.ret = Throw(Error("failed"))

\* C15: Ok(v).map(f) invokes f exactly once with v and is a new Ok of f(v);
\* Err(e).map(f) never invokes f and is an Err of the same e;
\* Err(e).mapErr(g) invokes g exactly once with e and is a new Err of g(e);
\* Ok(v).mapErr(g) never invokes g and is an Ok of the same v.
C15_MapAndMapErr ==
  LET o == heap[last.self]
      f == last.args[1]
  IN  /\ (last.op = "map" /\ o.cls = "ResultT.Ok") =>
           /\ last.calls = Called(f, <<o.value>>)
           /\ f[<<o.value>>].kind = "return" =>
                IsRefToNew(last.ret, NewOk(f[<<o.value>>].val))
           /\ f[<<o.value>>].kind = "throw" => last.ret = f[<<o.value>>]
      /\ (last.op = "map" /\ o.cls = "ResultT.Err") =>
           /\ last.calls = << >>
           /\ IsRefToObj(last.ret, NewErr(o.error))
      /\ (last.op = "mapErr" /\ o.cls = "ResultT.Err") =>
           /\ last.calls = Called(f, <<o.error>>)
           /\ f[<<o.error>>].kind = "return" =>
                IsRefToNew(last.ret, NewErr(f[<<o.error>>].val))
           /\ f[<<o.error>>].kind = "throw" => last.ret = f[<<o.error>>]
      /\ (last.op = "mapErr" /\ o.cls = "ResultT.Ok") =>
           /\ last.calls = << >>
           /\ IsRefToObj(last.ret, NewOk(o.value))

C15_Witness ==
  /\ last.op = "map"
  /\ heap[last.self] = NewErr(Num(1))
  /\ last.args[1] = Const(OneArg, Throw(Boom))
  /\ last.calls = << >>
  /\ IsRefToObj(last.ret, NewErr(Num(1)))

\* C16: orElse(fn) on an Ok returns the receiver itself, the same object, and
\* never invokes fn; on an Err(e) it invokes fn exactly once with e and
\* returns exactly the ResultT that fn returned.
C16_OrElse ==
  last.op = "orElse"
    => LET o == heap[last.self]
           f == last.args[1]
       IN  IF o.cls = "ResultT.Ok"
           THEN /\ last.ret = Return(Ref(last.self))
                /\ last.calls = << >>
           ELSE /\ last.calls = Called(f, <<o.error>>)
                /\ f[<<o.error>>].kind = "new" =>
                     /\ last.ret = Return(Ref(Len(heap)))
                     /\ heap[Len(heap)] = f[<<o.error>>].obj
                /\ f[<<o.error>>].kind # "new" => last.ret = f[<<o.error>>]

\* C17: ok(v) is an Ok holding v for every v, null and undefined included,
\* and err(e) is an Err holding e for every e, null and undefined included,
\* in ResultT and in Result alike.
C17_ConstructionKeepsVariant ==
  /\ last.op = "ResultT.ok" => IsRefToNew(last.ret, NewOk(last.args[1]))
  /\ last.op = "ResultT.err" => IsRefToNew(last.ret, NewErr(last.args[1]))
  /\ last.op = "Result.ok" => IsRefToNew(last.ret, Result_NewOk(last.args[1]))
  /\ last.op = "Result.err" => IsRefToNew(last.ret, Result_NewErr(last.args[1]))

(***************************************************************************)
(* Properties of Validation, checked under SpecValidation.                 *)
(***************************************************************************)
IsFailureObj(obj) == obj.cls = "Validation.Failure"
ErrorsOf(obj) == Items(heap, obj.errors)

IsRefToNewFailure(ret, errors) ==
  /\ ret = Return(Ref(Len(heap)))
  /\ ret.val[2] # last.self
  /\ IsFailureObj(heap[Len(heap)])
  /\ ErrorsOf(heap[Len(heap)]) = errors

\* C18: for a Failure receiver, assert(other) returns a new Failure whose
\* errors are the receiver's followed by other's when other is a Failure, and
\* exactly the receiver's when other is a Success.  The receiver may itself
\* be the result of an earlier assert, so a chain accumulates the errors of
\* every Failure in call order, dropping none.
C18_FailureAssert ==
  (last.op = "assert" /\ IsFailureObj(heap[last.self]))
    => LET this == heap[last.self]
           other == heap[last.args[1][2]]
       IN  IsRefToNewFailure(last.ret,
                             IF IsFailureObj(other)
                             THEN ErrorsOf(this) \o ErrorsOf(other)
                             ELSE ErrorsOf(this))

C18_Witness ==
  /\ last.op = "assert"
  /\ IsFailureObj(heap[last.self])
  /\ ErrorsOf(heap[last.self]) = <<Num(1), Num(2)>>
  /\ IsFailureObj(heap[last.args[1][2]])
  /\ ErrorsOf(heap[last.args[1][2]]) = <<Num(2)>>
  /\ IsRefToNewFailure(last.ret, <<Num(1), Num(2), Num(2)>>)

\* C19: Success.assert(other) returns other itself and builds nothing,
\* whatever other is: the right side wins and the receiver's value is
\* discarded.
C19_SuccessAssert ==
  [][(last'.op = "assert" /\ ~IsFailureObj(heap[last'.self]))
       => /\ last'.ret = Return(last'.args[1])
          /\ last'.calls = << >>
          /\ heap' = heap]_vars

C19_Witness ==
  /\ last.op = "assert"
  /\ heap[last.self] = NewSuccess(Num(1))
  /\ last.ret = Return(last.args[1])
  /\ last.ret.val[2] # last.self
  /\ heap[last.ret.val[2]] = NewSuccess(Num(2))

\* C20: every Failure built by failure(e) and any sequence of assert calls
\* holds a non-empty list of errors, and failure(e) holds exactly <<e>>.
C20_FailureNonEmpty ==
  /\ \A i \in Validations : IsFailureObj(heap[i]) => Len(ErrorsOf(heap[i])) >= 1
  /\ last.op = "Validation.failure" =>
       IsRefToNewFailure(last.ret, <<last.args[1]>>)

C20_Witness ==
  /\ last.op = "assert"
  /\ IsFailureObj(heap[last.self])
  /\ ~IsFailureObj(heap[last.args[1][2]])
  /\ last.ret = Return(Ref(Len(heap)))
  /\ IsFailureObj(heap[Len(heap)])
  /\ Len(ErrorsOf(heap[Len(heap)])) = 2

(***************************************************************************)
(* Variant and payload of instances over time (SpecAll).                   *)
(***************************************************************************)

Variant(obj) == obj.cls

PayloadOf(obj) ==
  IF "value" \in DOMAIN obj THEN obj.value
  ELSE IF "error" \in DOMAIN obj THEN obj.error
  ELSE Undefined

\* C21: variant and payload of an instance are fixed at construction: no
\* operation changes them on any existing OptionT or ResultT instance, and
\* isSome()/isNone() (isOk()/isErr()) answer by the variant, each the negation
\* of the other, whatever operations ran before.
C21_VariantAndPayloadFixed ==
  /\ [][\A i \in DOMAIN heap :
          /\ i \in DOMAIN heap'
          /\ Variant(heap'[i]) = Variant(heap[i])
          /\ PayloadOf(heap'[i]) = PayloadOf(heap[i])]_vars
  /\ [](/\ last.op = "isSome" =>
             last.ret = Return(Bool(Variant(heap[last.self]) = "OptionT.Some"))
        /\ last.op = "isNone" =>
             last.ret = Return(Bool(Variant(heap[last.self]) # "OptionT.Some"))
        /\ last.op = "isOk" =>
             last.ret = Return(Bool(Variant(heap[last.self]) = "ResultT.Ok"))
        /\ last.op = "isErr" =>
             last.ret = Return(Bool(Variant(heap[last.self]) # "ResultT.Ok")))

\* An Ok whose getOk() result exists and was inspected answers isErr().
C21_Witness ==
  /\ last.op = "isErr"
  /\ Variant(heap[last.self]) = "ResultT.Ok"
  /\ last.ret = Return(Bool(FALSE))
  /\ Len(heap) = 2
  /\ Variant(heap[2]) = "OptionT.Some"
  /\ heap[2].hasBeenInspected

(***************************************************************************)
(* Optional.ap of src/src/Validation.ts (SpecAp): the receiver holds a     *)
(* value, the argument is an Optional that may hold a function.            *)
(***************************************************************************)
MaxApObjs == 3

\* `f(this.value)` inside the arrow function Some.ap passes to map: calling
\* what is not a function is a TypeError.
ApplyHeld(h, f, value) ==
  IF f[1] = "function"
  THEN Invoke(h, f[2], <<value>>)
  ELSE [heap |-> h, ret |-> Throw(TypeError("f is not a function")), calls |-> << >>]

\* `return func.map(f => f(this.value))`, map being Some.map
\* (`Optional.of(func(this.value))`) or None.map of the argument.
Optional_Some_ap(h, self, func) ==
  IF h[func].cls = "Optional.Some"
  THEN LET r == ApplyHeld(h, h[func].value, h[self].value)
       IN  IF r.ret.kind = "throw"
           THEN Outcome(r.heap, r.ret, r.calls, << >>)
           ELSE LET o == Optional_of(r.heap, r.ret.val)
                IN  Outcome(o.heap, o.ret, r.calls, << >>)
  ELSE Optional_None_map(h, func, << >>)

\* None.ap that maps the argument as Some.ap does, with nothing to pass.
Optional_None_ap_Applies(h, self, func) ==
  IF h[func].cls = "Optional.Some"
  THEN LET r == ApplyHeld(h, h[func].value, Undefined)
       IN  IF r.ret.kind = "throw"
           THEN Outcome(r.heap, r.ret, r.calls, << >>)
           ELSE LET o == Optional_of(r.heap, r.ret.val)
                IN  Outcome(o.heap, o.ret, r.calls, << >>)
  ELSE Optional_None_map(h, func, << >>)

Optional_None_ap(h, self, func) ==
  Outcome(Append(h, Optional_NewNone), Return(Ref(Len(h) + 1)), << >>, << >>)

HoldsFunction(obj) == obj.cls = "Optional.Some" /\ obj.value[1] = "function"

\* The receivers of ap: the Optionals that do not hold a function.
ApReceivers == {i \in Optionals : ~HoldsFunction(heap[i])}

CallOptionalSomeFunction ==
  \E func \in MapFuncs :
    /\ Do("Optional.some", 0, <<Fn(func)>>, Optional_some(heap, Fn(func)))
    /\ UNCHANGED inspected

CallOptionalAp ==
  \E self \in ApReceivers, func \in Optionals :
    /\ DoWithin(MaxApObjs, "ap", self, <<Ref(func)>>,
                IF IsOptionalSome(self) THEN Optional_Some_ap(heap, self, func)
                                        ELSE Optional_None_ap(heap, self, func))
    /\ UNCHANGED inspected

NextAp ==
  \/ Resume
  \/ CallOptionalSome
  \/ CallOptionalNone
  \/ CallOptionalSomeFunction
  \/ CallOptionalAp

SpecAp == Init /\ [][NextAp]_vars

\* C22: Some(v).ap(Some(f)) invokes f exactly once, with v, and returns a new
\* Some holding what f returned; with a None as receiver or as argument ap
\* returns a new None and invokes no function.
C22_Ap ==
  last.op = "ap" =>
    LET self == heap[last.self]
        func == heap[last.args[1][2]]
    IN  IF self.cls = "Optional.Some" /\ HoldsFunction(func)
        THEN /\ last.calls = Called(func.value[2], <<self.value>>)
             /\ func.value[2][<<self.value>>].kind = "return" =>
                  /\ last.ret = Return(Ref(Len(heap)))
                  /\ heap[Len(heap)] =
                       Optional_NewSome(func.value[2][<<self.value>>].val)
        ELSE (self.cls = "Optional.None" \/ func.cls = "Optional.None") =>
               /\ last.calls = << >>
               /\ last.ret = Return(Ref(Len(heap)))
               /\ heap[Len(heap)] = Optional_NewNone

\* Some(2).ap(Some(x => x)) returned a third object, a Some holding 2.
C22_Witness ==
  /\ last.op = "ap"
  /\ heap[last.self] = Optional_NewSome(Num(2))
  /\ heap[last.args[1][2]] = Optional_NewSome(Fn(Identity))
  /\ last.calls = Called(Identity, <<Num(2)>>)
  /\ Len(heap) = 3
  /\ last.ret = Return(Ref(3))
  /\ heap[3] = Optional_NewSome(Num(2))

(***************************************************************************)
(* The OptionT and ResultT that have clone, equals, mapOr and mapOrElse    *)
(* and no inspection flag (src/unnamed/part_013, src/unnamed/part_012),    *)
(* and the NoneT of src/src/option/none.ts (SpecBasic).                    *)
(***************************************************************************)
MaxLiterals == 2

NaN == <<"NaN">>
\* The object an evaluation of the literal { foo: 'bar' } creates: id is its
\* identity, the contents are the same for all of them.
Literal(id) == <<"literal", id>>
Contents(value) == [foo |-> "bar"]

BasicPayloads == Payloads \cup {NaN} \cup {Literal(id) : id \in 1..MaxLiterals}
BasicValues == BasicPayloads \cup {Null, Undefined}

\* a === b
StrictEquals(a, b) == a = b /\ a # NaN

Basic_NewSome(value) == [cls |-> "Basic.Some", value |-> value]
Basic_NewNone == [cls |-> "Basic.None"]
Basic_NewOk(val) == [cls |-> "Basic.Ok", value |-> val]
Basic_NewErr(err) == [cls |-> "Basic.Err", error |-> err]
NewNoneT == [cls |-> "NoneT"]

Basic_OptionT_of(h, value) ==
  IF IsNullish(value)
  THEN Outcome(Append(h, Basic_NewNone), Return(Ref(Len(h) + 1)), << >>, << >>)
  ELSE Outcome(Append(h, Basic_NewSome(value)), Return(Ref(Len(h) + 1)), << >>, << >>)

Basic_ResultT_ok(h, val) ==
  Outcome(Append(h, Basic_NewOk(val)), Return(Ref(Len(h) + 1)), << >>, << >>)

Basic_ResultT_err(h, error) ==
  Outcome(Append(h, Basic_NewErr(error)), Return(Ref(Len(h) + 1)), << >>, << >>)

getNone(h) ==
  Outcome(Append(h, NewNoneT), Return(Ref(Len(h) + 1)), << >>, << >>)

\* What the methods called on `other` answer.
Basic_isNone(h, i) == h[i].cls = "Basic.None"
Basic_unwrap(h, i) == h[i].value
Basic_isOk(h, i) == h[i].cls = "Basic.Ok"
Basic_isErr(h, i) == h[i].cls = "Basic.Err"
Basic_hasValue(h, i, val) ==
  IF h[i].cls = "Basic.Ok" THEN StrictEquals(h[i].value, val)
                           ELSE StrictEquals(h[i].error, val)

Basic_Some_equals(h, self, other) ==
  IF Basic_isNone(h, other)
  THEN Outcome(h, Return(Bool(FALSE)), << >>, << >>)
  ELSE Outcome(h, Return(Bool(StrictEquals(h[self].value, Basic_unwrap(h, other)))),
               << >>, << >>)

Basic_None_equals(h, self, other) ==
  Outcome(h, Return(Bool(Basic_isNone(h, other))), << >>, << >>)

\* Ok.equals without its test of other.isErr().
Basic_Ok_equals_NoVariantTest(h, self, other) ==
  Outcome(h, Return(Bool(Basic_hasValue(h, other, h[self].value))), << >>, << >>)

Basic_Ok_equals(h, self, other) ==
  IF Basic_isErr(h, other)
  THEN Outcome(h, Return(Bool(FALSE)), << >>, << >>)
  ELSE Outcome(h, Return(Bool(Basic_hasValue(h, other, h[self].value))), << >>, << >>)

Basic_Err_equals(h, self, other) ==
  IF Basic_isOk(h, other)
  THEN Outcome(h, Return(Bool(FALSE)), << >>, << >>)
  ELSE Outcome(h, Return(Bool(Basic_hasValue(h, other, h[self].error))), << >>, << >>)

\* Some.clone that returns the receiver.
Basic_Some_clone_This(h, self) == Outcome(h, Return(Ref(self)), << >>, << >>)

Basic_Some_clone(h, self) == Basic_OptionT_of(h, h[self].value)

Basic_None_clone(h, self) ==
  Outcome(Append(h, Basic_NewNone), Return(Ref(Len(h) + 1)), << >>, << >>)

Basic_Ok_clone(h, self) == Basic_ResultT_ok(h, h[self].value)

Basic_Err_clone(h, self) == Basic_ResultT_err(h, h[self].error)

Basic_Some_mapOr(h, self, other, func) ==
  LET r == Invoke(h, func, <<h[self].value>>)
  IN  Outcome(r.heap, r.ret, r.calls, << >>)

Basic_Some_mapOrElse(h, self, other, func) ==
  LET r == Invoke(h, func, <<h[self].value>>)
  IN  Outcome(r.heap, r.ret, r.calls, << >>)

Basic_None_mapOr(h, self, other, func) ==
  Outcome(h, Return(other), << >>, << >>)

Basic_None_mapOrElse(h, self, other, func) ==
  LET r == Invoke(h, other, << >>)
  IN  Outcome(r.heap, r.ret, r.calls, << >>)

NotImplemented == Error("Method not implemented.")

NoneT_mapOr(h, self, other, func) ==
  Outcome(h, Throw(NotImplemented), << >>, << >>)

NoneT_mapOrElse(h, self, other, func) ==
  Outcome(h, Throw(NotImplemented), << >>, << >>)

Equals(h, self, other) ==
  CASE h[self].cls = "Basic.Some" -> Basic_Some_equals(h, self, other)
    [] h[self].cls = "Basic.None" -> Basic_None_equals(h, self, other)
    [] h[self].cls = "Basic.Ok" -> Basic_Ok_equals(h, self, other)
    [] h[self].cls = "Basic.Err" -> Basic_Err_equals(h, self, other)

Clone(h, self) ==
  CASE h[self].cls = "Basic.Some" -> Basic_Some_clone(h, self)
    [] h[self].cls = "Basic.None" -> Basic_None_clone(h, self)
    [] h[self].cls = "Basic.Ok" -> Basic_Ok_clone(h, self)
    [] h[self].cls = "Basic.Err" -> Basic_Err_clone(h, self)

MapOr(h, self, other, func) ==
  CASE h[self].cls = "Basic.Some" -> Basic_Some_mapOr(h, self, other, func)
    [] h[self].cls = "Basic.None" -> Basic_None_mapOr(h, self, other, func)
    [] h[self].cls = "NoneT" -> NoneT_mapOr(h, self, other, func)

MapOrElse(h, self, other, func) ==
  CASE h[self].cls = "Basic.Some" -> Basic_Some_mapOrElse(h, self, other, func)
    [] h[self].cls = "Basic.None" -> Basic_None_mapOrElse(h, self, other, func)
    [] h[self].cls = "NoneT" -> NoneT_mapOrElse(h, self, other, func)

BasicOptions == {i \in DOMAIN heap : heap[i].cls \in {"Basic.Some", "Basic.None"}}
BasicResults == {i \in DOMAIN heap : heap[i].cls \in {"Basic.Ok", "Basic.Err"}}
Mappables == BasicOptions \cup {i \in DOMAIN heap : heap[i].cls = "NoneT"}

BasicOneArg == {<<v>> : v \in BasicPayloads}
BasicMapFuncs ==
  {[a \in BasicOneArg |-> Return(a[1])],
   Const(BasicOneArg, Return(Num(MaxVal))),
   Const(BasicOneArg, Throw(Boom))}

CallBasicOf ==
  \E value \in BasicValues :
    /\ Do("OptionT.of", 0, <<value>>, Basic_OptionT_of(heap, value))
    /\ UNCHANGED inspected

CallBasicOk ==
  \E val \in BasicPayloads :
    /\ Do("ResultT.ok", 0, <<val>>, Basic_ResultT_ok(heap, val))
    /\ UNCHANGED inspected

CallBasicErr ==
  \E error \in BasicPayloads :
    /\ Do("ResultT.err", 0, <<error>>, Basic_ResultT_err(heap, error))
    /\ UNCHANGED inspected

CallGetNone ==
  /\ Do("getNone", 0, << >>, getNone(heap))
  /\ UNCHANGED inspected

CallEquals ==
  \/ \E self \in BasicOptions, other \in BasicOptions :
       /\ Do("equals", self, <<Ref(other)>>, Equals(heap, self, other))
       /\ UNCHANGED inspected
  \/ \E self \in BasicResults, other \in BasicResults :
       /\ Do("equals", self, <<Ref(other)>>, Equals(heap, self, other))
       /\ UNCHANGED inspected

CallClone ==
  \E self \in BasicOptions \cup BasicResults :
    /\ Do("clone", self, << >>, Clone(heap, self))
    /\ UNCHANGED inspected

CallMapOr ==
  \E self \in Mappables, func \in BasicMapFuncs :
    /\ Do("mapOr", self, <<Num(1), Fn(func)>>, MapOr(heap, self, Num(1), func))
    /\ UNCHANGED inspected

CallMapOrElse ==
  \E self \in Mappables, other \in Thunks, func \in BasicMapFuncs :
    /\ Do("mapOrElse", self, <<Fn(other), Fn(func)>>, MapOrElse(heap, self, other, func))
    /\ UNCHANGED inspected

NextBasic ==
  \/ Resume
  \/ CallBasicOf
  \/ CallBasicOk
  \/ CallBasicErr
  \/ CallGetNone
  \/ CallEquals
  \/ CallClone
  \/ CallMapOr
  \/ CallMapOrElse

SpecBasic == Init /\ [][NextBasic]_vars

\* C23: a.equals(b) is true exactly when both are None, or both are Some
\* with === inner values, or both are Ok with === values, or both are Err
\* with === errors: never across variants, never by contents.
C23_Equals ==
  last.op = "equals" =>
    LET a == heap[last.self]
        b == heap[last.args[1][2]]
    IN  last.ret =
          Return(Bool(/\ a.cls = b.cls
                      /\ a.cls = "Basic.None"
                           \/ StrictEquals(PayloadOf(a), PayloadOf(b))))

\* Two Somes holding distinct objects of equal contents compared unequal.
C23_Witness ==
  /\ last.op = "equals"
  /\ heap[last.self] = Basic_NewSome(Literal(1))
  /\ heap[last.args[1][2]] = Basic_NewSome(Literal(2))
  /\ Contents(Literal(1)) = Contents(Literal(2))
  /\ last.ret = Return(Bool(FALSE))

\* What receiver.equals(result) answers in the state a clone() call left.
EqualsItsClone ==
  Equals(heap, last.self, last.ret.val[2]).ret = Return(Bool(TRUE))

IsCloneOfReceiver ==
  /\ last.ret = Return(Ref(Len(heap)))
  /\ Len(heap) # last.self
  /\ Variant(heap[Len(heap)]) = Variant(heap[last.self])
  /\ PayloadOf(heap[Len(heap)]) = PayloadOf(heap[last.self])

\* C24 as stated: clone() returns a new object of the same variant holding the
\* identical payload, and the receiver equals its clone.
C24_CloneEqualsReceiver ==
  last.op = "clone" => (IsCloneOfReceiver /\ EqualsItsClone)

\* C24: clone() returns a new object of the same variant holding the identical
\* payload; the receiver equals its clone exactly when it is a None or its
\* payload is === to itself, which NaN is not.
C24_Clone ==
  last.op = "clone" =>
    /\ IsCloneOfReceiver
    /\ EqualsItsClone <=>
         (Variant(heap[last.self]) = "Basic.None" \/ PayloadOf(heap[last.self]) # NaN)

\* A Some holding an object was cloned: two objects, one payload.
C24_Witness ==
  /\ last.op = "clone"
  /\ heap[last.self] = Basic_NewSome(Literal(1))
  /\ last.self = 1
  /\ last.ret = Return(Ref(2))
  /\ heap[2] = Basic_NewSome(Literal(1))
  /\ EqualsItsClone

\* C25: on a Some mapOr and mapOrElse return fn(v) after one call of fn and
\* never invoke the default thunk; on a None mapOr returns the default and
\* mapOrElse returns what the thunk returns after one call of it, fn is never
\* invoked, and the call itself does not throw.
C25_MapOr ==
  last.op \in {"mapOr", "mapOrElse"} =>
    LET other == last.args[1]
        func == last.args[2][2]
    IN  IF heap[last.self].cls = "Basic.Some"
        THEN /\ last.calls = Called(func, <<heap[last.self].value>>)
             /\ last.ret = func[<<heap[last.self].value>>]
        ELSE IF last.op = "mapOr"
             THEN /\ last.calls = << >>
                  /\ last.ret = Return(other)
             ELSE /\ last.calls = Called(other[2], << >>)
                  /\ last.ret = other[2][<< >>]

(***************************************************************************)
(* Errors thrown by the caller's functions (SpecAll).                      *)
(***************************************************************************)
Combinators ==
  {"map", "mapErr", "flatMap", "orElse", "unwrapOrElse", "filter", "match", "forEach"}

\* What the function of a logged call did with the arguments it was given.
BodyOf(call) == call.fn[call.args]

\* C26: when a function the caller passed to map, mapErr, flatMap, orElse,
\* unwrapOrElse, filter, match or forEach throws e, the call throws that same
\* e: it returns no instance, creates none and leaves every object, the
\* receiver included, as it was.
C26_ErrorsPropagate ==
  [][(/\ last'.op \in Combinators
      /\ \E k \in DOMAIN last'.calls : BodyOf(last'.calls[k]).kind = "throw")
       => /\ last'.ret = BodyOf(last'.calls[Len(last'.calls)])
          /\ last'.ret.kind = "throw"
          /\ heap' = heap]_vars

\* filter on a Some threw what its condition threw.
C26_Witness ==
  /\ last.op = "filter"
  /\ heap[last.self].cls = "OptionT.Some"
  /\ last.calls = Called(Const(OneArg, Throw(Boom)), <<heap[last.self].value>>)
  /\ last.ret = Throw(Boom)

(***************************************************************************)
(* The inspection status of the results of combinators (Spec).             *)
(***************************************************************************)
ReturnsOptionT == {"map", "and", "flatMap", "or", "orElse", "filter"}

\* C27: the inspection status belongs to the object.  A combinator result
\* that is a new object starts uninspected, whatever the status of the
\* receiver; a result that is an existing object (the receiver, the argument,
\* what the function returned) has exactly the status that object had before
\* the call.
C27_StatusBelongsToObject ==
  [][(/\ last'.op \in ReturnsOptionT
      /\ last'.ret.kind = "return"
      /\ last'.ret.val[1] = "object")
       => LET result == last'.ret.val[2]
          IN  IF result \in DOMAIN heap
              THEN heap'[result].hasBeenInspected = heap[result].hasBeenInspected
              ELSE ~heap'[result].hasBeenInspected]_vars

(***************************************************************************)
(* ResultT's conversions and the inspection discipline of the OptionT they *)
(* return (SpecConvert).                                                   *)
(***************************************************************************)
GetOk(h, self) ==
  IF h[self].cls = "ResultT.Ok" THEN Ok_getOk(h, self) ELSE Err_getOk(h, self)

GetErr(h, self) ==
  IF h[self].cls = "ResultT.Ok" THEN Ok_getErr(h, self) ELSE Err_getErr(h, self)

Unwrap(h, self, message) ==
  IF h[self].cls = "OptionT.Some" THEN Some_unwrap(h, self, message)
                                  ELSE None_unwrap(h, self, message)

\* The caller's single expression `r.getOk().unwrap()` (`r.getErr().unwrap()`):
\* unwrap runs on what the conversion returned, if it returned.
ThenUnwrap(converted) ==
  IF converted.ret.kind = "throw"
  THEN converted
  ELSE Unwrap(converted.heap, converted.ret.val[2], Undefined)

CallGetOkUnwrap ==
  \E self \in Results :
    /\ Do("getOk().unwrap", self, << >>, ThenUnwrap(GetOk(heap, self)))
    /\ UNCHANGED inspected

CallGetErrUnwrap ==
  \E self \in Results :
    /\ Do("getErr().unwrap", self, << >>, ThenUnwrap(GetErr(heap, self)))
    /\ UNCHANGED inspected

NextConvert ==
  \/ Resume
  \/ CallOk
  \/ CallErr
  \/ CallGetOk
  \/ CallGetErr
  \/ CallGetOkUnwrap
  \/ CallGetErrUnwrap
  \/ CallIsSome
  \/ CallIsNone
  \/ CallUnwrap

SpecConvert == Init /\ [][NextConvert]_vars

\* C28: every getOk() or getErr() returns a new OptionT on which nothing was
\* inspected, so `r.getOk().unwrap()` and `r.getErr().unwrap()` written as one
\* expression fail with unchecked_unwrap for every ResultT r, and unwrap on a
\* conversion result returns the value only after isSome()/isNone() on that
\* very object.
C28_ConversionsAreUninspected ==
  /\ last.op \in {"getOk", "getErr"} =>
       /\ last.ret = Return(Ref(Len(heap)))
       /\ ~heap[Len(heap)].hasBeenInspected
       /\ Len(heap) \notin inspected
  /\ last.op \in {"getOk().unwrap", "getErr().unwrap"} =>
       last.ret = Throw(Error(UncheckedUnwrapMessage))
  /\ (last.op = "unwrap" /\ last.ret.kind = "return") => last.self \in inspected

\* C30: assert changes neither operand nor any other object: every
\* validation and every array of errors that existed before the call is the
\* same after it, so the list of an earlier Failure is never extended in
\* place, also when a later Failure holds the same array.
C30_AssertChangesNoOperand ==
  [][last'.op = "assert" => \A i \in DOMAIN heap : heap'[i] = heap[i]]_vars

\* A Failure whose array is also held by another Failure was the receiver of
\* assert with a Failure: the result holds a new array of two errors, the
\* shared one still has one.
C30_Witness ==
  /\ last.op = "assert"
  /\ IsFailureObj(heap[last.self])
  /\ IsFailureObj(heap[last.args[1][2]])
  /\ \E i \in Validations :
       /\ i # last.self
       /\ IsFailureObj(heap[i])
       /\ heap[i].errors = heap[last.self].errors
  /\ Len(ErrorsOf(heap[last.self])) = 1
  /\ last.ret = Return(Ref(Len(heap)))
  /\ heap[Len(heap)].errors # heap[last.self].errors
  /\ Len(ErrorsOf(heap[Len(heap)])) = 2

(***************************************************************************)
(* a.assert(b).assert(c) and a.assert(b.assert(c)) on the same operands    *)
(* (SpecAssertAssoc).                                                      *)
(***************************************************************************)
Validation_assert(h, self, other) ==
  IF h[self].cls = "Validation.Success" THEN Success_assert(h, self, other)
                                        ELSE Failure_assert(h, self, other)

LeftGrouped(h, a, b, c) ==
  LET x == Validation_assert(h, a, Ref(b))
  IN  Validation_assert(x.heap, x.ret.val[2], Ref(c))

RightGrouped(h, a, b, c) ==
  LET x == Validation_assert(h, b, Ref(c))
  IN  Validation_assert(x.heap, a, x.ret.val)

\* Variant and payload of the validation a call returned.
ObservedValidation(out) ==
  LET obj == out.heap[out.ret.val[2]]
  IN  [cls |-> obj.cls,
       payload |-> IF obj.cls = "Validation.Failure"
                   THEN Items(out.heap, obj.errors)
                   ELSE obj.value]

\* The validations a caller has before it evaluates the two groupings: what
\* two constructions leave, each a success(v), a failure(e) or the Failure of
\* two errors failure(e1).assert(failure(e2)) together with its two operands.
Constructions ==
  {<<"success", v>> : v \in Payloads}
    \cup {<<"failure", e>> : e \in Payloads}
    \cup {<<"failure.assert", e1, e2>> : e1 \in Payloads, e2 \in Payloads}

Construct(h, how) ==
  CASE how[1] = "success" -> Validation_success(h, how[2]).heap
    [] how[1] = "failure" -> Validation_failure(h, how[2]).heap
    [] how[1] = "failure.assert" ->
         LET x == Validation_failure(h, how[2])
             y == Validation_failure(x.heap, how[3])
         IN  Failure_assert(y.heap, x.ret.val[2], y.ret.val).heap

OperandHeaps ==
  {Construct(Construct(<< >>, first), second) :
     first \in Constructions, second \in Constructions}

InitAssertAssoc ==
  /\ heap \in OperandHeaps
  /\ last = Idle
  /\ inspected = {}

CallAssertBothWays ==
  /\ last.op = "idle"
  /\ heap \in OperandHeaps
  /\ \E a \in Validations, b \in Validations, c \in Validations :
       LET l == LeftGrouped(heap, a, b, c)
           r == RightGrouped(l.heap, a, b, c)
       IN  /\ heap' = r.heap
           /\ last' = [op |-> "assert.assert", self |-> a, args |-> <<Ref(b), Ref(c)>>,
                       ret |-> l.ret, calls |-> << >>, warn |-> << >>,
                       left |-> ObservedValidation(l),
                       right |-> ObservedValidation(r)]
  /\ UNCHANGED inspected

NextAssertAssoc ==
  \/ CallAssertBothWays
  \/ Resume

SpecAssertAssoc == InitAssertAssoc /\ [][NextAssertAssoc]_vars

ErrorsIfFailure(obj) == IF IsFailureObj(obj) THEN ErrorsOf(obj) ELSE << >>

\* C29: a.assert(b).assert(c) and a.assert(b.assert(c)) have the same variant
\* and payload: a Failure holding the errors of a, b and c in that order when
\* at least one of them is a Failure, and otherwise a Success with c's value.
C29_AssertAssociative ==
  last.op = "assert.assert" =>
    LET a == heap[last.self]
        b == heap[last.args[1][2]]
        c == heap[last.args[2][2]]
    IN  /\ last.left = last.right
        /\ IF IsFailureObj(a) \/ IsFailureObj(b) \/ IsFailureObj(c)
           THEN last.left =
                  [cls |-> "Validation.Failure",
                   payload |-> ErrorsIfFailure(a) \o ErrorsIfFailure(b) \o ErrorsIfFailure(c)]
           ELSE last.left = [cls |-> "Validation.Success", payload |-> c.value]

\* A Failure, a Success and a Failure of two errors, three distinct objects.
C29_Witness ==
  /\ last.op = "assert.assert"
  /\ IsFailureObj(heap[last.self])
  /\ ~IsFailureObj(heap[last.args[1][2]])
  /\ IsFailureObj(heap[last.args[2][2]])
  /\ last.self # last.args[2][2]
  /\ ErrorsOf(heap[last.self]) = <<Num(2)>>
  /\ ErrorsOf(heap[last.args[2][2]]) = <<Num(1), Num(2)>>
  /\ last.left = [cls |-> "Validation.Failure", payload |-> <<Num(2), Num(1), Num(2)>>]
  /\ last.right = last.left

====
